---------------------------- MODULE Spec2Model ----------------------------
(***************************************************************************)
(* Model of the forecast client: package forecast (the file whose name is  *)
(* unknown, called "root" here) and package forecast/v2.                   *)
(*                                                                         *)
(*   Get(key, lat, long, time, units)                                      *)
(*     GetResponse: build the URL, one http.Get                            *)
(*     ioutil.ReadAll(res.Body), with res.Body.Close() deferred            *)
(*     FromJSON(body): json.Unmarshal into a Forecast                      *)
(*     f.APICalls = strconv.Atoi(X-Forecast-API-Calls header)              *)
(*                                                                         *)
(* Strings that are only concatenated or compared are TLA+ strings.  A     *)
(* string that is scanned (the header value given to strconv.Atoi) is a    *)
(* sequence of one-character strings.  A JSON text is a sequence of        *)
(* tokens; a JSON number literal -?d+(.d+)? is the pair m, e with value    *)
(* m / 10^e, e being the number of digits after the point.  A pointer is   *)
(* a sequence of length 0 (nil) or 1.  A nil and an empty slice are both   *)
(* the empty sequence.  Go's int is the 32-bit int of a 32-bit build.      *)
(***************************************************************************)
EXTENDS Integers, Sequences, FiniteSets, TLC

VARIABLES
  exclude,   \* root package: the identifier `exclude` GetResponse reads
  log,       \* the standard logger's output, one entry per log.Println
  pc,        \* per invocation of Get: where it is
  arg,       \* per invocation: pkg, key, lat, long, time, units
  url,       \* per invocation: the URL given to http.Get
  gets,      \* per invocation: number of http.Get calls made
  res,       \* per invocation: *http.Response held by Get (pointer)
  closes,    \* per response body: the invocations that called Close on it
  body,      \* per invocation: the bytes ioutil.ReadAll returned
  f,         \* per invocation: the *Forecast FromJSON returned (pointer)
  ret,       \* per invocation: what Get returned, <<>> until it returns
  steps      \* per invocation: the steps taken so far, in order

vars == <<exclude, log, pc, arg, url, gets, res, closes, body, f, ret, steps>>

-----------------------------------------------------------------------------
(* Bounds and program constants *)

\* number of invocations of Get that may run in parallel
NProcs == 2

\* math.MaxInt of a build whose int is 32 bits wide
MaxInt == 2147483647

MinInt == -MaxInt - 1

BASEURL == "https://api.forecast.io/forecast"

\* type Units and its constants
CA == "ca"

SI == "si"

US == "us"

UK == "uk"

AUTO == "auto"

Units == {CA, SI, US, UK, AUTO}

\* the two packages of the repository
Pkgs == {"root", "v2"}

-----------------------------------------------------------------------------
(* The schema: the struct types and their json tags *)

\* src/v2/forecast.go lines 16-26: type Flags struct
FlagsFields ==
  << [name |-> "DarkSkyUnavailable", ty |-> "string", wire |-> "darksky-unavailable"],
     [name |-> "DarkSkyStations", ty |-> "[]string", wire |-> "darksky-stations"],
     [name |-> "DataPointStations", ty |-> "[]string", wire |-> "datapoint-stations"],
     [name |-> "ISDStations", ty |-> "[]string", wire |-> "isds-stations"],
     [name |-> "LAMPStations", ty |-> "[]string", wire |-> "lamp-stations"],
     [name |-> "METARStations", ty |-> "[]string", wire |-> "metars-stations"],
     [name |-> "METNOLicense", ty |-> "string", wire |-> "metnol-license"],
     [name |-> "Sources", ty |-> "[]string", wire |-> "sources"],
     [name |-> "Units", ty |-> "string", wire |-> "units"] >>

\* src/v2/forecast.go lines 28-71: type DataPoint struct
DataPointFieldsV2 ==
  << [name |-> "Time", ty |-> "float64", wire |-> "time"],
     [name |-> "Summary", ty |-> "string", wire |-> "summary"],
     [name |-> "Icon", ty |-> "string", wire |-> "icon"],
     [name |-> "SunriseTime", ty |-> "float64", wire |-> "sunrise_time"],
     [name |-> "SunsetTime", ty |-> "float64", wire |-> "sunset_time"],
     [name |-> "MoonPhase", ty |-> "float64", wire |-> "moon_phase"],
     [name |-> "PrecipIntensity", ty |-> "float64", wire |-> "precipIntensity"],
     [name |-> "PrecipIntensityMax", ty |-> "float64", wire |-> "precipIntensityMax"],
     [name |-> "PrecipIntensityMaxTime", ty |-> "float64", wire |-> "precipIntensityMaxTime"],
     [name |-> "PrecipProbability", ty |-> "float64", wire |-> "precipProbability"],
     [name |-> "PrecipType", ty |-> "string", wire |-> "precipType"],
     [name |-> "PrecipAccumulation", ty |-> "float64", wire |-> "precipAccumulation"],
     [name |-> "TemperatureLow", ty |-> "float64", wire |-> "temperatureLow"],
     [name |-> "Temperature", ty |-> "float64", wire |-> "temperature"],
     [name |-> "ApparentTemperature", ty |-> "float64", wire |-> "apparentTemperature"],
     [name |-> "TemperatureLowTime", ty |-> "float64", wire |-> "temperatureLowTime"],
     [name |-> "TemperatureHigh", ty |-> "float64", wire |-> "temperatureHigh"],
     [name |-> "TemperatureHighTime", ty |-> "float64", wire |-> "temperatureHighTime"],
     [name |-> "ApparentTemperatureHigh", ty |-> "float64", wire |-> "apparentTemperatureHigh"],
     [name |-> "ApparentTemperatureHighTime", ty |-> "float64", wire |-> "apparentTemperatureHighTime"],
     [name |-> "ApparentTemperatureLow", ty |-> "float64", wire |-> "apparentTemperatureLow"],
     [name |-> "ApparentTemperatureLowTime", ty |-> "float64", wire |-> "apparentTemperatureLowTime"],
     [name |-> "TemperatureMin", ty |-> "float64", wire |-> "temperature_min"],
     [name |-> "TemperatureMinTime", ty |-> "float64", wire |-> "temperature_min_time"],
     [name |-> "TemperatureMax", ty |-> "float64", wire |-> "temperature_max"],
     [name |-> "TemperatureMaxTime", ty |-> "float64", wire |-> "temperature_max_time"],
     [name |-> "ApparentTemperatureMin", ty |-> "float64", wire |-> "apparentTemperatureMin"],
     [name |-> "ApparentTemperatureMinTime", ty |-> "float64", wire |-> "apparentTemperatureMinTime"],
     [name |-> "ApparentTemperatureMax", ty |-> "float64", wire |-> "apparentTemperatureMax"],
     [name |-> "ApparentTemperatureMaxTime", ty |-> "float64", wire |-> "apparentTemperatureMaxTime"],
     [name |-> "DewPoint", ty |-> "float64", wire |-> "dew_point"],
     [name |-> "Humidity", ty |-> "float64", wire |-> "humidity"],
     [name |-> "Pressure", ty |-> "float64", wire |-> "pressure"],
     [name |-> "WindSpeed", ty |-> "float64", wire |-> "windSpeed"],
     [name |-> "WindGust", ty |-> "float64", wire |-> "windGust"],
     [name |-> "WindGustTime", ty |-> "float64", wire |-> "windGustTime"],
     [name |-> "WindBearing", ty |-> "float64", wire |-> "windBearing"],
     [name |-> "CloudCover", ty |-> "float64", wire |-> "cloudCover"],
     [name |-> "UVIndex", ty |-> "int", wire |-> "uvIndex"],
     [name |-> "UVIndexTime", ty |-> "int", wire |-> "uvIndexTime"],
     [name |-> "Ozone", ty |-> "float64", wire |-> "ozone"],
     [name |-> "Visibility", ty |-> "float64", wire |-> "visibility"] >>

\* src/unnamed/part_000 lines 27-54: type DataPoint struct
DataPointFieldsRoot ==
  << [name |-> "Time", ty |-> "float64", wire |-> "time"],
     [name |-> "Summary", ty |-> "string", wire |-> "summary"],
     [name |-> "Icon", ty |-> "string", wire |-> "icon"],
     [name |-> "SunriseTime", ty |-> "float64", wire |-> "sunrise_time"],
     [name |-> "SunsetTime", ty |-> "float64", wire |-> "sunset_time"],
     [name |-> "PrecipIntensity", ty |-> "float64", wire |-> "precip_intensity"],
     [name |-> "PrecipIntensityMax", ty |-> "float64", wire |-> "precip_intensity_max"],
     [name |-> "PrecipIntensityMaxTime", ty |-> "float64", wire |-> "precip_intensity_max_time"],
     [name |-> "PrecipProbability", ty |-> "float64", wire |-> "precip_probability"],
     [name |-> "PrecipType", ty |-> "string", wire |-> "precip_type"],
     [name |-> "PrecipAccumulation", ty |-> "float64", wire |-> "precip_accumulation"],
     [name |-> "Temperature", ty |-> "float64", wire |-> "temperature"],
     [name |-> "TemperatureMin", ty |-> "float64", wire |-> "temperature_min"],
     [name |-> "TemperatureMinTime", ty |-> "float64", wire |-> "temperature_min_time"],
     [name |-> "TemperatureMax", ty |-> "float64", wire |-> "temperature_max"],
     [name |-> "TemperatureMaxTime", ty |-> "float64", wire |-> "temperature_max_time"],
     [name |-> "ApparentTemperature", ty |-> "float64", wire |-> "apparent_temperature"],
     [name |-> "DewPoint", ty |-> "float64", wire |-> "dew_point"],
     [name |-> "WindSpeed", ty |-> "float64", wire |-> "wind_speed"],
     [name |-> "WindBearing", ty |-> "float64", wire |-> "wind_bearing"],
     [name |-> "CloudCover", ty |-> "float64", wire |-> "cloud_cover"],
     [name |-> "Humidity", ty |-> "float64", wire |-> "humidity"],
     [name |-> "Pressure", ty |-> "float64", wire |-> "pressure"],
     [name |-> "Visibility", ty |-> "float64", wire |-> "visibility"],
     [name |-> "Ozone", ty |-> "float64", wire |-> "ozone"],
     [name |-> "MoonPhase", ty |-> "float64", wire |-> "moon_phase"] >>

\* src/v2/forecast.go lines 73-77: type DataBlock struct
DataBlockFields ==
  << [name |-> "Summary", ty |-> "string", wire |-> "summary"],
     [name |-> "Icon", ty |-> "string", wire |-> "icon"],
     [name |-> "Data", ty |-> "[]DataPoint", wire |-> "data"] >>

\* src/v2/forecast.go lines 79-85: type alert struct
alertFields ==
  << [name |-> "Title", ty |-> "string", wire |-> "title"],
     [name |-> "Description", ty |-> "string", wire |-> "description"],
     [name |-> "Time", ty |-> "float64", wire |-> "time"],
     [name |-> "Expires", ty |-> "float64", wire |-> "expires"],
     [name |-> "URI", ty |-> "string", wire |-> "uri"] >>

\* src/v2/forecast.go lines 87-100: type Forecast struct
ForecastFields ==
  << [name |-> "Latitude", ty |-> "float64", wire |-> "latitude"],
     [name |-> "Longitude", ty |-> "float64", wire |-> "longitude"],
     [name |-> "Timezone", ty |-> "string", wire |-> "timezone"],
     [name |-> "Offset", ty |-> "float64", wire |-> "offset"],
     [name |-> "Currently", ty |-> "DataPoint", wire |-> "currently"],
     [name |-> "Minutely", ty |-> "DataBlock", wire |-> "minutely"],
     [name |-> "Hourly", ty |-> "DataBlock", wire |-> "hourly"],
     [name |-> "Daily", ty |-> "DataBlock", wire |-> "daily"],
     [name |-> "Alerts", ty |-> "[]alert", wire |-> "alerts"],
     [name |-> "Flags", ty |-> "Flags", wire |-> "flags"],
     [name |-> "APICalls", ty |-> "int", wire |-> "apicalls"],
     [name |-> "Code", ty |-> "int", wire |-> "code"] >>

\* lower-case forms of the wire names that hold an upper-case letter
WireLower(s) ==
  CASE s = "apparentTemperature" -> "apparenttemperature"
    [] s = "apparentTemperatureHigh" -> "apparenttemperaturehigh"
    [] s = "apparentTemperatureHighTime" -> "apparenttemperaturehightime"
    [] s = "apparentTemperatureLow" -> "apparenttemperaturelow"
    [] s = "apparentTemperatureLowTime" -> "apparenttemperaturelowtime"
    [] s = "apparentTemperatureMax" -> "apparenttemperaturemax"
    [] s = "apparentTemperatureMaxTime" -> "apparenttemperaturemaxtime"
    [] s = "apparentTemperatureMin" -> "apparenttemperaturemin"
    [] s = "apparentTemperatureMinTime" -> "apparenttemperaturemintime"
    [] s = "cloudCover" -> "cloudcover"
    [] s = "precipAccumulation" -> "precipaccumulation"
    [] s = "precipIntensity" -> "precipintensity"
    [] s = "precipIntensityMax" -> "precipintensitymax"
    [] s = "precipIntensityMaxTime" -> "precipintensitymaxtime"
    [] s = "precipProbability" -> "precipprobability"
    [] s = "precipType" -> "preciptype"
    [] s = "temperatureHigh" -> "temperaturehigh"
    [] s = "temperatureHighTime" -> "temperaturehightime"
    [] s = "temperatureLow" -> "temperaturelow"
    [] s = "temperatureLowTime" -> "temperaturelowtime"
    [] s = "uvIndex" -> "uvindex"
    [] s = "uvIndexTime" -> "uvindextime"
    [] s = "windBearing" -> "windbearing"
    [] s = "windGust" -> "windgust"
    [] s = "windGustTime" -> "windgusttime"
    [] s = "windSpeed" -> "windspeed"
    [] OTHER -> s

DataPointFields(pkg) == IF pkg = "v2" THEN DataPointFieldsV2 ELSE DataPointFieldsRoot

\* the fields of struct type ty of package pkg
Fields(pkg, ty) ==
  CASE ty = "Forecast" -> ForecastFields
    [] ty = "DataPoint" -> DataPointFields(pkg)
    [] ty = "DataBlock" -> DataBlockFields
    [] ty = "alert" -> alertFields
    [] ty = "Flags" -> FlagsFields

IsSlice(ty) == ty \in {"[]string", "[]DataPoint", "[]alert"}

Elem(ty) ==
  CASE ty = "[]string" -> "string"
    [] ty = "[]DataPoint" -> "DataPoint"
    [] ty = "[]alert" -> "alert"

\* a float64 holding m / 10^e, without trailing zeros in the fraction
FloatZero == [m |-> 0, e |-> 0]

RECURSIVE Zero(_, _)
\* the zero value of type ty: what `var f Forecast` holds
Zero(pkg, ty) ==
  CASE ty = "float64" -> FloatZero
    [] ty = "int" -> 0
    [] ty = "string" -> ""
    [] IsSlice(ty) -> <<>>
    [] OTHER ->
         LET fs == Fields(pkg, ty) IN
         [n \in {fs[i].name : i \in DOMAIN fs} |->
            Zero(pkg, fs[CHOOSE i \in DOMAIN fs : fs[i].name = n].ty)]

-----------------------------------------------------------------------------
(* JSON texts: tokens, and the values encoding/json scans them into *)

LBrace == [t |-> "{"]

RBrace == [t |-> "}"]

LBrack == [t |-> "["]

RBrack == [t |-> "]"]

Colon == [t |-> ":"]

Comma == [t |-> ","]

Null == [t |-> "null"]

True == [t |-> "true"]

False == [t |-> "false"]

Str(s) == [t |-> "str", s |-> s]

\* the number literal with value m / 10^e, written with e digits after the point
Num(m, e) == [t |-> "num", m |-> m, e |-> e]

ParseFail == [ok |-> FALSE]

RECURSIVE ParseValue(_, _), ParseElems(_, _, _), ParseMembers(_, _, _)
\* one JSON value starting at token i: [ok, v, i] with i the next token
ParseValue(toks, i) ==
  IF i > Len(toks) THEN ParseFail
  ELSE LET tk == toks[i] IN
    CASE tk.t = "null" -> [ok |-> TRUE, v |-> [t |-> "null"], i |-> i + 1]
      [] tk.t \in {"true", "false"} ->
           [ok |-> TRUE, v |-> [t |-> "bool", b |-> tk.t = "true"], i |-> i + 1]
      [] tk.t \in {"num", "str"} -> [ok |-> TRUE, v |-> tk, i |-> i + 1]
      [] tk.t = "[" ->
           IF i + 1 <= Len(toks) /\ toks[i + 1].t = "]"
           THEN [ok |-> TRUE, v |-> [t |-> "arr", a |-> <<>>], i |-> i + 2]
           ELSE ParseElems(toks, i + 1, <<>>)
      [] tk.t = "{" ->
           IF i + 1 <= Len(toks) /\ toks[i + 1].t = "}"
           THEN [ok |-> TRUE, v |-> [t |-> "obj", o |-> <<>>], i |-> i + 2]
           ELSE ParseMembers(toks, i + 1, <<>>)
      [] OTHER -> ParseFail

\* the elements of an array, after its "[" or a ","
ParseElems(toks, i, acc) ==
  LET r == ParseValue(toks, i) IN
  IF ~r.ok \/ r.i > Len(toks) THEN ParseFail
  ELSE IF toks[r.i].t = "," THEN ParseElems(toks, r.i + 1, Append(acc, r.v))
  ELSE IF toks[r.i].t = "]"
       THEN [ok |-> TRUE, v |-> [t |-> "arr", a |-> Append(acc, r.v)], i |-> r.i + 1]
  ELSE ParseFail

\* the members of an object, after its "{" or a ","
ParseMembers(toks, i, acc) ==
  IF i + 1 > Len(toks) \/ toks[i].t # "str" \/ toks[i + 1].t # ":" THEN ParseFail
  ELSE LET r == ParseValue(toks, i + 2) IN
    IF ~r.ok \/ r.i > Len(toks) THEN ParseFail
    ELSE LET m == [k |-> toks[i].s, v |-> r.v] IN
      IF toks[r.i].t = "," THEN ParseMembers(toks, r.i + 1, Append(acc, m))
      ELSE IF toks[r.i].t = "}"
           THEN [ok |-> TRUE, v |-> [t |-> "obj", o |-> Append(acc, m)], i |-> r.i + 1]
      ELSE ParseFail

\* checkValid: the whole text is exactly one JSON value
Scan(toks) ==
  LET r == ParseValue(toks, 1) IN
  IF r.ok /\ r.i = Len(toks) + 1 THEN r ELSE ParseFail

-----------------------------------------------------------------------------
(* json.Unmarshal into the struct types *)

\* keys of the inputs that hold an upper-case letter, and the wire names
KeyLower(s) ==
  CASE s = "Code" -> "code"
    [] s = "LATITUDE" -> "latitude"
    [] OTHER -> WireLower(s)

\* FindField without the case folding: only the exact wire name matches
FindFieldExact(fs, key) ==
  LET exact == {i \in DOMAIN fs : fs[i].wire = key}
  IN IF exact # {} THEN <<fs[CHOOSE i \in exact : \A j \in exact : i <= j]>> ELSE <<>>

\* bytes.Equal first, then the first field whose name matches under case folding
FindField(fs, key) ==
  LET exact == {i \in DOMAIN fs : fs[i].wire = key}
      fold == {i \in DOMAIN fs : KeyLower(fs[i].wire) = KeyLower(key)}
      first(S) == CHOOSE i \in S : \A j \in S : i <= j
  IN IF exact # {} THEN <<fs[first(exact)]>>
     ELSE IF fold # {} THEN <<fs[first(fold)]>>
     ELSE <<>>

RECURSIVE NormFloat(_, _)
\* m / 10^e without trailing zeros in the fraction
NormFloat(m, e) ==
  IF e > 0 /\ m % 10 = 0 THEN NormFloat(m \div 10, e - 1) ELSE [m |-> m, e |-> e]

\* strconv.ParseFloat of a number literal
ParseFloat(j) == NormFloat(j.m, j.e)

\* strconv.ParseInt of a number literal succeeds: no fraction, and in range
IntLiteral(j) == j.e = 0 /\ MinInt <= j.m /\ j.m <= MaxInt

RECURSIVE Decode(_, _, _, _), DecodeObject(_, _, _, _, _), DecodeArray(_, _, _, _)
\* decode JSON value j into a variable of type ty holding cur:
\* [v |-> what it holds afterwards, err |-> an UnmarshalTypeError was saved]
Decode(pkg, ty, cur, j) ==
  IF j.t = "null"
  THEN [v |-> IF IsSlice(ty) THEN <<>> ELSE cur, err |-> FALSE]
  ELSE
    CASE ty = "float64" ->
           IF j.t = "num" THEN [v |-> ParseFloat(j), err |-> FALSE]
           ELSE [v |-> cur, err |-> TRUE]
      [] ty = "int" ->
           IF j.t = "num" /\ IntLiteral(j) THEN [v |-> j.m, err |-> FALSE]
           ELSE [v |-> cur, err |-> TRUE]
      [] ty = "string" ->
           IF j.t = "str" THEN [v |-> j.s, err |-> FALSE]
           ELSE [v |-> cur, err |-> TRUE]
      [] IsSlice(ty) ->
           IF j.t = "arr" THEN DecodeArray(pkg, Elem(ty), j.a, 1)
           ELSE [v |-> cur, err |-> TRUE]
      [] OTHER ->
           IF j.t = "obj" THEN DecodeObject(pkg, ty, cur, j.o, 1)
           ELSE [v |-> cur, err |-> TRUE]

\* the elements a[i..] of a JSON array into a slice of ty
DecodeArray(pkg, ty, a, i) ==
  IF i > Len(a) THEN [v |-> <<>>, err |-> FALSE]
  ELSE LET r == Decode(pkg, ty, Zero(pkg, ty), a[i])
           rest == DecodeArray(pkg, ty, a, i + 1)
       IN [v |-> <<r.v>> \o rest.v, err |-> r.err \/ rest.err]

\* DecodeObject as with DisallowUnknownFields: a key that matches no field
\* is an error
DecodeObjectStrict(pkg, ty, cur, o, i) ==
  IF i > Len(o) THEN [v |-> cur, err |-> FALSE]
  ELSE LET fld == FindField(Fields(pkg, ty), o[i].k) IN
    IF fld = <<>> THEN [v |-> DecodeObject(pkg, ty, cur, o, i + 1).v, err |-> TRUE]
    ELSE LET r == Decode(pkg, fld[1].ty, cur[fld[1].name], o[i].v)
             rest == DecodeObject(pkg, ty, [cur EXCEPT ![fld[1].name] = r.v], o, i + 1)
         IN [v |-> rest.v, err |-> r.err \/ rest.err]

\* the members o[i..] of a JSON object into the struct cur of type ty
DecodeObject(pkg, ty, cur, o, i) ==
  IF i > Len(o) THEN [v |-> cur, err |-> FALSE]
  ELSE LET fld == FindField(Fields(pkg, ty), o[i].k) IN
    IF fld = <<>> THEN DecodeObject(pkg, ty, cur, o, i + 1)
    ELSE LET r == Decode(pkg, fld[1].ty, cur[fld[1].name], o[i].v)
             rest == DecodeObject(pkg, ty, [cur EXCEPT ![fld[1].name] = r.v], o, i + 1)
         IN [v |-> rest.v, err |-> r.err \/ rest.err]

\* json.Unmarshal(data, &v) with v a Forecast holding cur:
\* [v |-> what v holds afterwards, err |-> "" for nil]
Unmarshal(pkg, data, cur) ==
  LET s == Scan(data) IN
  IF ~s.ok THEN [v |-> cur, err |-> "SyntaxError"]
  ELSE LET d == Decode(pkg, "Forecast", cur, s.v) IN
       [v |-> d.v, err |-> IF d.err THEN "UnmarshalTypeError" ELSE ""]

\* FromJSON returning &f together with the error
FromJSONPartial(pkg, jsonBlob) ==
  LET u == Unmarshal(pkg, jsonBlob, Zero(pkg, "Forecast")) IN
  [f |-> <<u.v>>, err |-> u.err]

\* FromJSON's return: [f |-> *Forecast, err |-> error]
FromJSON(pkg, jsonBlob) ==
  LET u == Unmarshal(pkg, jsonBlob, Zero(pkg, "Forecast")) IN
  IF u.err # "" THEN [f |-> <<>>, err |-> u.err]
  ELSE [f |-> <<u.v>>, err |-> ""]

\* what FromJSON logs: nothing in the root package; in v2 the blob, then
\* one line per element of f.Daily.Data (nothing when Unmarshal failed)
FromJSONLog(pkg, jsonBlob) ==
  LET r == FromJSON(pkg, jsonBlob)
      data == r.f[1]["Daily"]["Data"]
  IN IF pkg # "v2" \/ r.err # "" THEN <<>>
     ELSE <<[blob |-> jsonBlob]>> \o [i \in DOMAIN data |-> [fromJSON |-> data[i]]]

-----------------------------------------------------------------------------
(* strconv.Atoi on a string given as its characters *)

Digits == {"0", "1", "2", "3", "4", "5", "6", "7", "8", "9"}

DigitVal(c) ==
  CASE c = "0" -> 0 [] c = "1" -> 1 [] c = "2" -> 2 [] c = "3" -> 3 [] c = "4" -> 4
    [] c = "5" -> 5 [] c = "6" -> 6 [] c = "7" -> 7 [] c = "8" -> 8 [] c = "9" -> 9

\* 1<<32 - 1, 1<<31 - 1 and 1<<31 as decimal numerals
MaxUintDigits == <<"4", "2", "9", "4", "9", "6", "7", "2", "9", "5">>

MaxIntDigits == <<"2", "1", "4", "7", "4", "8", "3", "6", "4", "7">>

MinIntDigits == <<"2", "1", "4", "7", "4", "8", "3", "6", "4", "8">>

RECURSIVE StripZeros(_)
StripZeros(ds) == IF Len(ds) > 1 /\ ds[1] = "0" THEN StripZeros(Tail(ds)) ELSE ds

\* a <= b for decimal numerals a and b
NumeralLeq(a, b) ==
  LET x == StripZeros(a)
      y == StripZeros(b)
  IN \/ Len(x) < Len(y)
     \/ /\ Len(x) = Len(y)
        /\ \/ x = y
           \/ \E i \in DOMAIN x : /\ \A j \in 1..(i - 1) : x[j] = y[j]
                                  /\ DigitVal(x[i]) < DigitVal(y[i])

RECURSIVE NegValue(_, _)
\* minus the value of the numeral ds[i..], accumulated from acc
NegValue(ds, acc) ==
  IF ds = <<>> THEN acc ELSE NegValue(Tail(ds), acc * 10 - DigitVal(ds[1]))

\* strconv.Atoi(s): [n |-> the int returned, err |-> "" for nil]
Atoi(s) ==
  LET signed == Len(s) > 0 /\ s[1] \in {"+", "-"}
      neg == Len(s) > 0 /\ s[1] = "-"
      ds == IF signed THEN Tail(s) ELSE s
      \* the first character that is no digit, and the first digit at which
      \* the value read so far exceeds the unsigned range
      bad == {i \in DOMAIN ds : ds[i] \notin Digits}
      over == {i \in DOMAIN ds :
                 /\ \A j \in 1..i : ds[j] \in Digits
                 /\ ~NumeralLeq(SubSeq(ds, 1, i), MaxUintDigits)}
      before(S, T) == S # {} /\ \A j \in T : \E i \in S : i < j
  IN IF Len(ds) = 0 \/ before(bad, over) THEN [n |-> 0, err |-> "ErrSyntax"]
     ELSE IF over # {} THEN [n |-> IF neg THEN MinInt ELSE MaxInt, err |-> "ErrRange"]
     ELSE IF ~neg /\ ~NumeralLeq(ds, MaxIntDigits) THEN [n |-> MaxInt, err |-> "ErrRange"]
     ELSE IF neg /\ ~NumeralLeq(ds, MinIntDigits) THEN [n |-> MinInt, err |-> "ErrRange"]
     ELSE [n |-> IF neg THEN NegValue(ds, 0) ELSE -NegValue(ds, 0), err |-> ""]

\* res.Header.Get(name): the value, "" when the header is absent
HeaderGet(header) == IF header = <<>> THEN <<>> ELSE header[1]

-----------------------------------------------------------------------------
(* GetResponse: the URL *)

RECURSIVE JoinExclude(_, _)
\* the loop over exclude: "," before every element but the first
JoinExclude(excl, i) ==
  IF i > Len(excl) THEN ""
  ELSE (IF i # 1 THEN "," ELSE "") \o excl[i] \o JoinExclude(excl, i + 1)

\* the URL GetResponse gives to http.Get
GetResponseURL(pkg, excl, key, lat, long, time, units) ==
  LET coord == lat \o "," \o long
      u == IF time = "now"
           THEN BASEURL \o "/" \o key \o "/" \o coord \o "?units=" \o units
           ELSE BASEURL \o "/" \o key \o "/" \o coord \o "," \o time \o "?units=" \o units
  IN IF pkg = "root" /\ Len(excl) > 0
     THEN u \o "&exclude=" \o JoinExclude(excl, 1)
     ELSE u

\* what GetResponse logs before the request: the URL in v2, nothing in root
GetResponseLog(pkg, u) == IF pkg = "v2" THEN <<[url |-> u]>> ELSE <<>>

-----------------------------------------------------------------------------
(* Inputs: the arguments of Get and what the transport answers *)

Keys == {"KEY"}

Lats == {"37.8"}

Longs == {"-122.4"}

Times == {"now", "Now", "1449500000"}

\* values of the root package's `exclude`
Excludes == {<<>>, <<"hourly">>, <<"hourly", "flags">>}

Args == [pkg : Pkgs, key : Keys, lat : Lats, long : Longs, time : Times, units : Units]

\* {}
BodyEmptyObject == <<LBrace, RBrace>>

\* {"latitude":37.8,"longitude":-122.4,"currently":{"temperature":68.5}}
BodyScenario ==
  <<LBrace, Str("latitude"), Colon, Num(378, 1), Comma,
    Str("longitude"), Colon, Num(-1224, 1), Comma,
    Str("currently"), Colon, LBrace, Str("temperature"), Colon, Num(685, 1), RBrace,
    RBrace>>

\* {"code":400,"apicalls":7,"offset":-5.0}
BodyCode ==
  <<LBrace, Str("code"), Colon, Num(400, 0), Comma, Str("apicalls"), Colon, Num(7, 0),
    Comma, Str("offset"), Colon, Num(-50, 1), RBrace>>

\* {"bogus":[1,{"code":9}],"code":400,"apicalls":7,"extra":null,"offset":-5}
BodyCodeUnknown ==
  <<LBrace, Str("bogus"), Colon, LBrack, Num(1, 0), Comma,
    LBrace, Str("code"), Colon, Num(9, 0), RBrace, RBrack, Comma,
    Str("code"), Colon, Num(400, 0), Comma, Str("apicalls"), Colon, Num(7, 0), Comma,
    Str("extra"), Colon, Null, Comma, Str("offset"), Colon, Num(-5, 0), RBrace>>

\* {"daily":{"summary":"s","data":[{"time":1,"precipIntensity":2,"precip_intensity":3},
\*  {"uvIndex":4}]},"alerts":[{"title":"a","expires":9}],
\*  "flags":{"sources":["x","y"],"units":"us"}}
BodyDaily ==
  <<LBrace, Str("daily"), Colon, LBrace, Str("summary"), Colon, Str("s"), Comma,
    Str("data"), Colon, LBrack,
    LBrace, Str("time"), Colon, Num(1, 0), Comma, Str("precipIntensity"), Colon, Num(2, 0),
    Comma, Str("precip_intensity"), Colon, Num(3, 0), RBrace, Comma,
    LBrace, Str("uvIndex"), Colon, Num(4, 0), RBrace, RBrack, RBrace, Comma,
    Str("alerts"), Colon, LBrack, LBrace, Str("title"), Colon, Str("a"), Comma,
    Str("expires"), Colon, Num(9, 0), RBrace, RBrack, Comma,
    Str("flags"), Colon, LBrace, Str("sources"), Colon, LBrack, Str("x"), Comma, Str("y"),
    RBrack, Comma, Str("units"), Colon, Str("us"), RBrace, RBrace>>

\* {"Code":5,"LATITUDE":1.5}
BodyFoldedKeys ==
  <<LBrace, Str("Code"), Colon, Num(5, 0), Comma, Str("LATITUDE"), Colon, Num(15, 1),
    RBrace>>

\* {"code":1,"timezone":"a","code":2,"currently":{"time":1},"currently":{"icon":"i"}}
BodyDuplicateKeys ==
  <<LBrace, Str("code"), Colon, Num(1, 0), Comma, Str("timezone"), Colon, Str("a"), Comma,
    Str("code"), Colon, Num(2, 0), Comma,
    Str("currently"), Colon, LBrace, Str("time"), Colon, Num(1, 0), RBrace, Comma,
    Str("currently"), Colon, LBrace, Str("icon"), Colon, Str("i"), RBrace, RBrace>>

\* {"code":null,"timezone":"UTC","alerts":null,"currently":null}
BodyNullFields ==
  <<LBrace, Str("code"), Colon, Null, Comma, Str("timezone"), Colon, Str("UTC"), Comma,
    Str("alerts"), Colon, Null, Comma, Str("currently"), Colon, Null, RBrace>>

\* {"code":1,"code":null,"alerts":[{"title":"a"}],"alerts":null}
BodyNullAfterValue ==
  <<LBrace, Str("code"), Colon, Num(1, 0), Comma, Str("code"), Colon, Null, Comma,
    Str("alerts"), Colon, LBrack, LBrace, Str("title"), Colon, Str("a"), RBrace, RBrack,
    Comma, Str("alerts"), Colon, Null, RBrace>>

\* {"code":"400"}
BodyCodeString == <<LBrace, Str("code"), Colon, Str("400"), RBrace>>

\* {"timezone":"UTC","code":4.5}
BodyCodeFraction ==
  <<LBrace, Str("timezone"), Colon, Str("UTC"), Comma, Str("code"), Colon, Num(45, 1),
    RBrace>>

\* {"latitude":"37.8"}
BodyLatitudeString == <<LBrace, Str("latitude"), Colon, Str("37.8"), RBrace>>

\* {"timezone":5}
BodyTimezoneNumber == <<LBrace, Str("timezone"), Colon, Num(5, 0), RBrace>>

\* {"currently":[],"code":3}
BodyCurrentlyArray ==
  <<LBrace, Str("currently"), Colon, LBrack, RBrack, Comma, Str("code"), Colon, Num(3, 0),
    RBrace>>

\* {"alerts":{},"hourly":{"data":[true]}}
BodyAlertsObject ==
  <<LBrace, Str("alerts"), Colon, LBrace, RBrace, Comma, Str("hourly"), Colon,
    LBrace, Str("data"), Colon, LBrack, True, RBrack, RBrace, RBrace>>

\* JSON objects whose recognized fields all hold values of their types
WellTypedObjects ==
  {BodyEmptyObject, BodyScenario, BodyCode, BodyCodeUnknown, BodyDaily, BodyFoldedKeys,
   BodyDuplicateKeys, BodyNullFields, BodyNullAfterValue}

\* JSON objects in which a recognized field holds a value its type cannot take
IllTypedObjects ==
  {BodyCodeString, BodyCodeFraction, BodyLatitudeString, BodyTimezoneNumber,
   BodyCurrentlyArray, BodyAlertsObject}

\* valid JSON texts whose top-level value is no object: null, [], [{"code":1}],
\* "code", 5, true, false
NonObjects ==
  {<<Null>>, <<LBrack, RBrack>>,
   <<LBrack, LBrace, Str("code"), Colon, Num(1, 0), RBrace, RBrack>>,
   <<Str("code")>>, <<Num(5, 0)>>, <<True>>, <<False>>}

\* texts that are not JSON: the empty text, {, {"code":, {"code" 1}, {"code":1,},
\* {}}, {} {}, [1 2], {1:2}, ], "code":1
InvalidTexts ==
  {<<>>, <<LBrace>>, <<LBrace, Str("code"), Colon>>,
   <<LBrace, Str("code"), Num(1, 0), RBrace>>,
   <<LBrace, Str("code"), Colon, Num(1, 0), Comma, RBrace>>,
   <<LBrace, RBrace, RBrace>>, <<LBrace, RBrace, LBrace, RBrace>>,
   <<LBrack, Num(1, 0), Num(2, 0), RBrack>>,
   <<LBrace, Num(1, 0), Colon, Num(2, 0), RBrace>>, <<RBrack>>,
   <<Str("code"), Colon, Num(1, 0)>>}

Bodies == WellTypedObjects \cup IllTypedObjects \cup NonObjects \cup InvalidTexts

\* values of the X-Forecast-API-Calls header that are decimal integers in range:
\* 42, 5, 0, -5, +7, 007, 2147483647, -2147483648
IntHeaders ==
  {<<"4", "2">>, <<"5">>, <<"0">>, <<"-", "5">>, <<"+", "7">>, <<"0", "0", "7">>,
   MaxIntDigits, <<"-">> \o MinIntDigits}

\* values that are not decimal integers: the empty value, x, 4x, 4.2, -, "4 2",
\* 3000000000x
NonIntHeaders ==
  {<<>>, <<"x">>, <<"4", "x">>, <<"4", ".", "2">>, <<"-">>, <<"4", " ", "2">>,
   <<"3", "0", "0", "0", "0", "0", "0", "0", "0", "0", "x">>}

\* digit strings too large for int: 2147483648, -2147483649, 3000000000,
\* 99999999999, -99999999999, 5000000000x
BigHeaders ==
  {MinIntDigits, <<"-", "2", "1", "4", "7", "4", "8", "3", "6", "4", "9">>,
   <<"3", "0", "0", "0", "0", "0", "0", "0", "0", "0">>,
   <<"9", "9", "9", "9", "9", "9", "9", "9", "9", "9", "9">>,
   <<"-", "9", "9", "9", "9", "9", "9", "9", "9", "9", "9", "9">>,
   <<"5", "0", "0", "0", "0", "0", "0", "0", "0", "0", "x">>}

\* the header as the response holds it: absent, or present with a value
Headers == {<<>>} \cup {<<h>> : h \in IntHeaders \cup NonIntHeaders \cup BigHeaders}

StatusCodes == {200, 404, 500}

\* *http.Response values: readErr says whether reading the body fails
Responses(S, H, B, E) == [status : S, header : H, body : B, readErr : E]

\* what http.Get returns: an error and no response, an error and a response
\* whose body is already closed (a failed redirect), or a response
Outcomes(R) ==
  {[err |-> "dial", res |-> <<>>, bodyState |-> "none"]}
  \cup {[err |-> "redirect", res |-> <<r>>, bodyState |-> "closed"] :
          r \in Responses({302}, {<<>>}, {<<>>}, {FALSE})}
  \cup {[err |-> "", res |-> <<r>>, bodyState |-> "open"] : r \in R}

\* the answers of the transport to one invocation: every body, every header
\* value, every status, and a body whose read fails
SeqOutcomes ==
  Outcomes(Responses({200}, {<<>>, <<(<<"4", "2">>)>>}, Bodies, {FALSE})
           \cup Responses({200}, Headers, {BodyCode, BodyEmptyObject}, {FALSE})
           \cup Responses(StatusCodes, {<<>>, <<(<<"4", "2">>)>>},
                          {BodyCode, <<Null>>, BodyCodeString}, BOOLEAN))

\* the answers of the transport to invocations that run in parallel
ParOutcomes ==
  Outcomes(Responses({200, 500}, {<<(<<"4", "2">>)>>}, {BodyCode, BodyCodeString}, {FALSE})
           \cup Responses({200}, {<<>>}, {BodyCode}, BOOLEAN))

-----------------------------------------------------------------------------
(* Get, step by step *)

\* the invocations of Get: one alone, or NProcs of them in parallel
SeqProcs == {1}

ParProcs == 1..NProcs

NoReturn == <<>>

\* the body of the response http.Get returned to invocation p: the transport
\* makes one body per request, named after the invocation that requested it
OwnBody(p) == p

\* res.Body.Close() called by invocation p on body h
Close(bs, h, p) == [bs EXCEPT ![h] = [state |-> "closed", by |-> Append(@.by, p)]]

\* OwnResponse with the response kept in one package-level variable, which
\* the first invocation's response overwrites
SharedResponse(resv, p) ==
  IF resv[1].err = "" /\ resv[1].res # <<>> THEN resv[1].res[1] ELSE resv[p].res[1]

\* the response body invocation p reads, decodes and closes: the one its own
\* call of GetResponse returned
OwnResponse(resv, p) == resv[p].res[1]

\* `return rf, rerr` before the defer statement: nothing is deferred
ReturnEarly(p, rf, rerr) ==
  /\ ret' = [ret EXCEPT ![p] = <<[f |-> rf, err |-> rerr]>>]
  /\ pc' = [pc EXCEPT ![p] = "done"]

\* Return with Close called at the end of Get instead of deferred: the
\* error paths return without closing
ReturnCloseOnSuccess(p, rf, rerr) ==
  /\ ret' = [ret EXCEPT ![p] = <<[f |-> rf, err |-> rerr]>>]
  /\ pc' = [pc EXCEPT ![p] = "done"]
  /\ closes' = IF rerr = "" THEN Close(closes, OwnBody(p), p) ELSE closes

\* `return rf, rerr` after the defer statement: the deferred Close runs
Return(p, rf, rerr) ==
  /\ ret' = [ret EXCEPT ![p] = <<[f |-> rf, err |-> rerr]>>]
  /\ pc' = [pc EXCEPT ![p] = "done"]
  /\ closes' = Close(closes, OwnBody(p), p)

\* GetResponse up to the request: the URL is built, logged (v2) and requested
Request(p) ==
  /\ pc[p] = "GetResponse"
  /\ LET a == arg[p]
         u == GetResponseURL(a.pkg, exclude, a.key, a.lat, a.long, a.time, a.units)
     IN /\ url' = [url EXCEPT ![p] = u]
        /\ log' = log \o GetResponseLog(a.pkg, u)
  /\ gets' = [gets EXCEPT ![p] = @ + 1]
  /\ steps' = [steps EXCEPT ![p] = Append(@, "request")]
  /\ pc' = [pc EXCEPT ![p] = "http.Get"]
  /\ UNCHANGED <<exclude, arg, res, closes, body, f, ret>>

\* Response with a retry: a failed http.Get sends the invocation back to
\* GetResponse
ResponseRetry(p, O) ==
  /\ pc[p] = "http.Get"
  /\ \E o \in O :
       /\ res' = [res EXCEPT ![p] = o]
       /\ closes' = [closes EXCEPT ![OwnBody(p)] = [state |-> o.bodyState, by |-> <<>>]]
       /\ pc' = [pc EXCEPT ![p] = IF o.err # "" THEN "GetResponse" ELSE "ReadAll"]
  /\ UNCHANGED <<exclude, log, arg, url, gets, body, f, ret, steps>>

\* Response with the status inspected: a status other than 200 is an error
ResponseCheckStatus(p, O) ==
  /\ pc[p] = "http.Get"
  /\ \E o \in O :
       /\ res' = [res EXCEPT ![p] = o]
       /\ closes' = [closes EXCEPT ![OwnBody(p)] = [state |-> o.bodyState, by |-> <<>>]]
       /\ IF o.err # ""
          THEN ReturnEarly(p, <<>>, o.err)
          ELSE IF o.res[1].status # 200
          THEN ReturnEarly(p, <<>>, "status")
          ELSE /\ pc' = [pc EXCEPT ![p] = "ReadAll"]
               /\ UNCHANGED ret
  /\ UNCHANGED <<exclude, log, arg, url, gets, body, f, steps>>

\* http.Get returns o; GetResponse returns it; Get returns on an error and
\* defers res.Body.Close() otherwise
Response(p, O) ==
  /\ pc[p] = "http.Get"
  /\ \E o \in O :
       /\ res' = [res EXCEPT ![p] = o]
       /\ closes' = [closes EXCEPT ![OwnBody(p)] = [state |-> o.bodyState, by |-> <<>>]]
       /\ IF o.err # ""
          THEN ReturnEarly(p, <<>>, o.err)
          ELSE /\ pc' = [pc EXCEPT ![p] = "ReadAll"]
               /\ UNCHANGED ret
  /\ UNCHANGED <<exclude, log, arg, url, gets, body, f, steps>>

\* ioutil.ReadAll(res.Body)
ReadAll(p) ==
  /\ pc[p] = "ReadAll"
  /\ steps' = [steps EXCEPT ![p] = Append(@, "read")]
  /\ IF OwnResponse(res, p).readErr
     THEN /\ Return(p, <<>>, "read")
          /\ UNCHANGED body
     ELSE /\ body' = [body EXCEPT ![p] = OwnResponse(res, p).body]
          /\ pc' = [pc EXCEPT ![p] = "FromJSON"]
          /\ UNCHANGED <<ret, closes>>
  /\ UNCHANGED <<exclude, log, arg, url, gets, res, f>>

\* f, err := FromJSON(body)
Decoded(p) ==
  /\ pc[p] = "FromJSON"
  /\ steps' = [steps EXCEPT ![p] = Append(@, "decode")]
  /\ log' = log \o FromJSONLog(arg[p].pkg, body[p])
  /\ LET r == FromJSON(arg[p].pkg, body[p]) IN
       /\ f' = [f EXCEPT ![p] = r.f]
       /\ IF r.err # ""
          THEN Return(p, <<>>, r.err)
          ELSE /\ pc' = [pc EXCEPT ![p] = "Atoi"]
               /\ UNCHANGED <<ret, closes>>
  /\ UNCHANGED <<exclude, arg, url, gets, res, body>>

\* calls, _ := strconv.Atoi(res.Header.Get("X-Forecast-API-Calls"))
APICallsOf(r) == Atoi(HeaderGet(r.header)).n

\* SetAPICalls that keeps the decoded value when the header gives 0
SetAPICallsIfNonZero(fv, calls) == IF calls = 0 THEN fv ELSE [fv EXCEPT !["APICalls"] = calls]

\* f.APICalls = calls
SetAPICalls(fv, calls) == [fv EXCEPT !["APICalls"] = calls]

\* the counter is attached and Get returns f, nil
Attach(p) ==
  /\ pc[p] = "Atoi"
  /\ steps' = [steps EXCEPT ![p] = Append(@, "attach")]
  /\ LET g == SetAPICalls(f[p][1], APICallsOf(OwnResponse(res, p))) IN
       /\ f' = [f EXCEPT ![p] = <<g>>]
       /\ Return(p, <<g>>, "")
  /\ UNCHANGED <<exclude, log, arg, url, gets, res, body>>

\* one invocation of Get, its arguments chosen
InitGet(P, A) ==
  /\ log = <<>>
  /\ pc = [p \in P |-> "GetResponse"]
  /\ arg \in [P -> A]
  /\ url = [p \in P |-> ""]
  /\ gets = [p \in P |-> 0]
  /\ res = [p \in P |-> [err |-> "", res |-> <<>>, bodyState |-> "none"]]
  /\ closes = [p \in P |-> [state |-> "none", by |-> <<>>]]
  /\ body = [p \in P |-> <<>>]
  /\ f = [p \in P |-> <<>>]
  /\ ret = [p \in P |-> NoReturn]
  /\ steps = [p \in P |-> <<>>]

Init ==
  /\ exclude \in Excludes
  /\ InitGet(SeqProcs, Args)

Next ==
  \E p \in SeqProcs :
    \/ Request(p)
    \/ Response(p, SeqOutcomes)
    \/ ReadAll(p)
    \/ Decoded(p)
    \/ Attach(p)

Spec == Init /\ [][Next]_vars

\* the arguments of the invocations that run in parallel
ParArgs == [pkg : Pkgs, key : Keys, lat : Lats, long : Longs, time : {"now"}, units : {US}]

ParInit ==
  /\ exclude \in {<<>>}
  /\ InitGet(ParProcs, ParArgs)

ParNext ==
  \E p \in ParProcs :
    \/ Request(p)
    \/ Response(p, ParOutcomes)
    \/ ReadAll(p)
    \/ Decoded(p)
    \/ Attach(p)

ParSpec == ParInit /\ [][ParNext]_vars

-----------------------------------------------------------------------------
(* Properties *)

Invocations == DOMAIN pc

Returned(p) == ret[p] # NoReturn

\* Get returned a record and no error
Succeeded(p) == Returned(p) /\ ret[p][1].err = ""

\* http.Get gave invocation p a response and no error
GotResponse(p) == pc[p] \notin {"GetResponse", "http.Get"} /\ res[p].err = ""

\* FromJSON has returned in invocation p
DecodeDone(p) == \E i \in DOMAIN steps[p] : steps[p][i] = "decode"

\* the URL of the interface description:
\* {base}/{apiKey}/{lat},{long}[,{timeSpec}]?units={units}
DocumentedURL(a) ==
  IF a.time = "now"
  THEN BASEURL \o "/" \o a.key \o "/" \o a.lat \o "," \o a.long \o "?units=" \o a.units
  ELSE BASEURL \o "/" \o a.key \o "/" \o a.lat \o "," \o a.long \o "," \o a.time
       \o "?units=" \o a.units

IntegerValue(s) ==
  IF s[1] = "-" THEN NegValue(Tail(s), 0)
  ELSE IF s[1] = "+" THEN -NegValue(Tail(s), 0)
  ELSE -NegValue(s, 0)

\* C2: after a successful Get, APICalls is the integer value of the header
\* X-Forecast-API-Calls when it holds an integer (42 for "42"), and 0 when the
\* header is absent or cannot be parsed as an integer, a digit string too large
\* for int included; a bad header never makes Get return an error.
C2_APICallsFromHeader ==
  \A p \in Invocations :
    LET h == res[p].res[1].header
        calls == ret[p][1].f[1]["APICalls"]
    IN /\ Succeeded(p) =>
            /\ h = <<(<<"4", "2">>)>> => calls = 42
            /\ h # <<>> /\ h[1] \in IntHeaders => calls = IntegerValue(h[1])
            /\ h = <<>> \/ h[1] \in NonIntHeaders \cup BigHeaders => calls = 0
       /\ (/\ Returned(p)
           /\ GotResponse(p)
           /\ ~res[p].res[1].readErr
           /\ res[p].res[1].body \in WellTypedObjects) => ret[p][1].err = ""

TransportFailed(p) ==
  res[p].err # "" \/ (res[p].res # <<>> /\ res[p].res[1].readErr)

\* C4 as stated: Get returns an error only when the GET or the body read fails
\* or the payload is not valid JSON or is no JSON object; whenever the
\* transport succeeds and the body is a JSON object, whatever it holds, Get
\* returns a record and no error.
C4_TwoErrorKinds ==
  \A p \in Invocations :
    Returned(p) =>
      /\ ret[p][1].err # "" =>
           TransportFailed(p) \/ res[p].res[1].body \in InvalidTexts \cup NonObjects
      /\ ~TransportFailed(p) /\ res[p].res[1].body \in WellTypedObjects \cup IllTypedObjects =>
           ret[p][1].err = "" /\ ret[p][1].f # <<>>

\* C4, amended: Get returns an error only when the GET or the body read fails,
\* or the payload is not valid JSON, or is no JSON object, or is a JSON object
\* in which a recognized field holds a value its type cannot take, which is an
\* error of the decoder too; whenever the transport succeeds and the body is a
\* JSON object whose recognized fields hold values of their types or null, Get
\* returns a record and no error.
C4_ErrorKindsTyped ==
  \A p \in Invocations :
    Returned(p) =>
      /\ ret[p][1].err # "" =>
           \/ TransportFailed(p) /\ ret[p][1].err \in {"dial", "redirect", "read"}
           \/ /\ ~TransportFailed(p)
              /\ res[p].res[1].body \in InvalidTexts \cup NonObjects \cup IllTypedObjects
              /\ ret[p][1].err \in {"SyntaxError", "UnmarshalTypeError"}
      /\ ~TransportFailed(p) /\ res[p].res[1].body \in IllTypedObjects =>
           ret[p][1].err = "UnmarshalTypeError" /\ ret[p][1].f = <<>>
      /\ ~TransportFailed(p) /\ res[p].res[1].body \in WellTypedObjects =>
           ret[p][1].err = "" /\ ret[p][1].f # <<>>

\* C4 witness: Get has returned a record and no error for an object that holds
\* keys the schema does not know
C4_Witness ==
  \E p \in Invocations :
    /\ Returned(p) /\ ~TransportFailed(p)
    /\ res[p].res[1].body = BodyCodeUnknown
    /\ ret[p][1].err = "" /\ ret[p][1].f # <<>>

RECURSIVE StripUnknown(_, _, _)
\* JSON value j, to be decoded into type ty, without the members whose keys
\* match no field of the struct they are decoded into
StripUnknown(pkg, ty, j) ==
  IF j.t = "arr" /\ IsSlice(ty)
  THEN [t |-> "arr", a |-> [i \in DOMAIN j.a |-> StripUnknown(pkg, Elem(ty), j.a[i])]]
  ELSE IF j.t = "obj" /\ ty \in {"Forecast", "DataPoint", "DataBlock", "alert", "Flags"}
  THEN LET fs == Fields(pkg, ty)
           known == SelectSeq(j.o, LAMBDA m : \E i \in DOMAIN fs :
                                       KeyLower(fs[i].wire) = KeyLower(m.k))
           tyOf(k) == fs[CHOOSE i \in DOMAIN fs : KeyLower(fs[i].wire) = KeyLower(k)].ty
       IN [t |-> "obj",
           o |-> [i \in DOMAIN known |->
                    [k |-> known[i].k, v |-> StripUnknown(pkg, tyOf(known[i].k), known[i].v)]]]
  ELSE j

\* the members of the top-level object of text b whose key is the wire name of
\* field fld, case ignored, and whose value is not null
MembersFor(b, fld) ==
  LET o == Scan(b).v.o IN
  {i \in DOMAIN o : KeyLower(o[i].k) = KeyLower(fld.wire) /\ o[i].v.t # "null"}

\* the Go value a JSON number or string denotes in a field of type ty
ScalarValue(ty, j) ==
  CASE ty = "float64" -> NormFloat(j.m, j.e)
    [] ty = "int" -> j.m
    [] ty = "string" -> j.s

\* record rec mirrors the top level of object text b: a scalar field holds the
\* value of the last member with its name, a field without a member is zero
MirrorsTopLevel(pkg, rec, b) ==
  \A i \in DOMAIN ForecastFields :
    LET fld == ForecastFields[i]
        ms == MembersFor(b, fld)
        last == CHOOSE m \in ms : \A n \in ms : n <= m
    IN /\ ms = {} => rec[fld.name] = Zero(pkg, fld.ty)
       /\ ms # {} /\ fld.ty \in {"float64", "int", "string"} =>
            rec[fld.name] = ScalarValue(fld.ty, Scan(b).v.o[last].v)

\* the record FromJSON returned is seen in f before Get attaches the counter
JustDecoded(p) == pc[p] = "Atoi"

C6_BodyClosedOnReturn ==
  \A p \in Invocations :
    Returned(p) /\ res[p].res # <<>> =>
      /\ closes[OwnBody(p)].state = "closed"
      /\ res[p].err = "" => closes[OwnBody(p)].by = <<p>>

\* C6 witness: Get has returned the decoder's error and the body is closed
C6_Witness ==
  \E p \in Invocations :
    /\ Returned(p)
    /\ ret[p][1].err = "SyntaxError"
    /\ closes[OwnBody(p)] = [state |-> "closed", by |-> <<p>>]

\* the steps of Get, in the order of its code
GetSteps == <<"request", "read", "decode", "attach">>

SameButStatus(p, q) ==
  /\ arg[p].pkg = arg[q].pkg
  /\ res[p].err = "" /\ res[q].err = ""
  /\ res[p].res # <<>> /\ res[q].res # <<>>
  /\ res[p].res[1].body = res[q].res[1].body
  /\ res[p].res[1].header = res[q].res[1].header
  /\ res[p].res[1].readErr = res[q].res[1].readErr

\* C8: the HTTP status is never inspected: a response with any status is a
\* successful transport result, two responses with the same body and header but
\* different status give the same outcome of Get, and Code comes only from the
\* "code" key of the body.
C8_StatusIgnored ==
  /\ \A p \in Invocations :
       /\ Returned(p) /\ res[p].err = "" => ret[p][1].err \notin {"dial", "redirect", "status"}
       /\ Succeeded(p) /\ res[p].res[1].body = BodyCode => ret[p][1].f[1]["Code"] = 400
       /\ Succeeded(p) /\ res[p].res[1].body = BodyEmptyObject => ret[p][1].f[1]["Code"] = 0
  /\ \A p, q \in Invocations :
       Returned(p) /\ Returned(q) /\ SameButStatus(p, q) => ret[p] = ret[q]

\* C8 witness: two invocations given the same body and header with statuses 200
\* and 500 have returned the same record
C8_Witness ==
  \E p, q \in Invocations :
    /\ Succeeded(p) /\ Succeeded(q) /\ SameButStatus(p, q)
    /\ res[p].res[1].status = 200 /\ res[q].res[1].status = 500
    /\ ret[p] = ret[q]
    /\ ret[p][1].f[1]["Code"] = 400

\* C9: the record a successful Get returns equals the record FromJSON returns
\* for the same body in every field but APICalls, which holds the value
\* derived from the header whatever "apicalls" the body holds.
C9_OnlyAPICallsSet ==
  \A p \in Invocations :
    Succeeded(p) =>
      LET got == ret[p][1].f[1]
          dec == FromJSON(arg[p].pkg, res[p].res[1].body).f[1]
          h == res[p].res[1].header
      IN /\ DOMAIN got = DOMAIN dec
         /\ \A n \in DOMAIN dec \ {"APICalls"} : got[n] = dec[n]
         /\ got["APICalls"] = Atoi(HeaderGet(h)).n
         /\ h = <<>> => got["APICalls"] = 0
         /\ h = <<(<<"4", "2">>)>> => got["APICalls"] = 42

\* C9 witness: the body holds "apicalls":7 and "code":400, the header is
\* absent, and Get has returned APICalls 0 and Code 400
C9_Witness ==
  \E p \in Invocations :
    /\ Succeeded(p)
    /\ res[p].res[1].body = BodyCode
    /\ res[p].res[1].header = <<>>
    /\ FromJSON(arg[p].pkg, BodyCode).f[1]["APICalls"] = 7
    /\ ret[p][1].f[1]["APICalls"] = 0
    /\ ret[p][1].f[1]["Code"] = 400

\* what Get returns when it runs alone with arguments a and is given o by the
\* transport
GetAlone(a, o) ==
  IF o.err # "" THEN [f |-> <<>>, err |-> o.err]
  ELSE IF o.res[1].readErr THEN [f |-> <<>>, err |-> "read"]
  ELSE LET r == FromJSON(a.pkg, o.res[1].body) IN
    IF r.err # "" THEN [f |-> <<>>, err |-> r.err]
    ELSE [f |-> <<[r.f[1] EXCEPT !["APICalls"] = Atoi(HeaderGet(o.res[1].header)).n]>>,
          err |-> ""]

=============================================================================
